---- MODULE Spec2Model ----
(***************************************************************************)
(* Model of the ulauncher OpenAI translate extension (src/main.py).        *)
(*                                                                         *)
(* State: the host-supplied preferences dict, the instance attributes of   *)
(* the extension object (openai_client, _current_base_url), a record of    *)
(* what the handler that has just returned did (items returned, clients    *)
(* constructed, chat-completion requests issued, exception escaped), and   *)
(* the configuration read by the preceding keyword query.                  *)
(*                                                                         *)
(* Spec varies the api key and the base url under every query and reply;   *)
(* SpecText varies the custom prompt and the model name.                   *)
(*                                                                         *)
(* Text is a sequence of one-character strings so that str.strip() is      *)
(* computed rather than assumed.  Fixed literals of the program are        *)
(* one-element sequences holding the whole literal.                        *)
(***************************************************************************)
EXTENDS Naturals, Sequences, FiniteSets, TLC

VARIABLES preferences, extension, last, prevQuery

vars == <<preferences, extension, last, prevQuery>>

----------------------------------------------------------------------------
(* Bounds of the model *)

MaxQueryLen == 2
MaxContentLen == 1

----------------------------------------------------------------------------
(* Python values *)

None == <<"None">>

Chars == {" ", "a"}

RECURSIVE Text(_)
Text(n) ==
    IF n = 0 THEN {<<>>}
    ELSE LET shorter == Text(n - 1)
         IN shorter \cup {Append(s, c) : s \in shorter, c \in Chars}

IsSpace(c) == c = " "

RECURSIVE lstrip(_)
lstrip(s) == IF s # <<>> /\ IsSpace(Head(s)) THEN lstrip(Tail(s)) ELSE s

RECURSIVE rstrip(_)
rstrip(s) ==
    IF s # <<>> /\ IsSpace(s[Len(s)]) THEN rstrip(SubSeq(s, 1, Len(s) - 1)) ELSE s

strip(s) == rstrip(lstrip(s))

\* truth value of a str-or-None
Truthy(v) == v # None /\ v # <<>>

\* dict.get(key, default)
Get(d, key, default) == IF key \in DOMAIN d THEN d[key] ELSE default

\* d[key] = value
setitem(d, key, value) ==
    [k \in (DOMAIN d) \cup {key} |-> IF k = key THEN value ELSE d[k]]

\* getattr(obj, name, default)
getattr(obj, name, default) == IF name \in DOMAIN obj THEN obj[name] ELSE default

\* obj.name = value
setattr(obj, name, value) ==
    [n \in (DOMAIN obj) \cup {name} |-> IF n = name THEN value ELSE obj[n]]

\* an exception is <<type, message>>; f'{e}' is its message
Exception(type, message) == <<type, message>>
str(e) == e[2]

----------------------------------------------------------------------------
(* Host API objects *)

ExtensionResultItem(name, description, highlightable, on_enter) ==
    [name |-> name, description |-> description,
     highlightable |-> highlightable, on_enter |-> on_enter]

CopyToClipboardAction(text) == <<"CopyToClipboardAction", text>>

KeyMissingItem ==
    ExtensionResultItem(<<"OpenAI API Key Missing">>,
                        <<"Please set your OpenAI API Key in Ulauncher preferences.">>,
                        FALSE, None)

InitErrorItem(e) ==
    ExtensionResultItem(<<"Error initializing OpenAI client">>, str(e), FALSE, None)

TypeSomethingItem ==
    ExtensionResultItem(<<"Type something to translate">>,
                        <<"Enter text to translate using OpenAI">>,
                        FALSE, None)

TranslatedItem(translated_text) ==
    ExtensionResultItem(translated_text,
                        <<"Press Enter to copy to clipboard">>,
                        TRUE, CopyToClipboardAction(translated_text))

TranslationErrorItem(e) ==
    ExtensionResultItem(<<"Error during translation">>,
                        str(e) \o <<"\nCheck logs for details">>,
                        FALSE, None)

----------------------------------------------------------------------------
(* The OpenAI client library: outcomes are chosen by the environment *)

InvalidUrl == Exception("OpenAIError", <<"invalid base url">>)
Timeout == Exception("APITimeoutError", <<"Request timed out.">>)

\* what constructing a client can do: None is success
CtorOutcomes == {None, InvalidUrl}

ChatCompletion(choices) == [exc |-> None, choices |-> choices]
Choice(content) == [message |-> [content |-> content]]

\* what one chat-completion call can do
ApiOutcomes ==
    {[exc |-> Timeout, choices |-> <<>>]}
    \cup {ChatCompletion(<<>>)}
    \cup {ChatCompletion(<<Choice(c)>>) : c \in {None} \cup Text(MaxContentLen)}
    \cup {ChatCompletion(<<Choice(<<"a">>), Choice(<<>>)>>)}

NoCall == ChatCompletion(<<>>)

client_kwargs(openai_api_key, base_url) ==
    IF Truthy(base_url)
    THEN [api_key |-> openai_api_key, base_url |-> base_url]
    ELSE [api_key |-> openai_api_key]

OpenAI(kwargs, ctor) ==
    IF ctor = None
    THEN [exc |-> None, value |-> <<"OpenAI", kwargs>>]
    ELSE [exc |-> ctor, value |-> None]

ExceptLibraryErrorOnly(e) ==
    e # None /\ e[1] \in {"OpenAIError", "APITimeoutError"}

\* except Exception as e
ExceptException(e) == e # None

----------------------------------------------------------------------------
(* KeywordQueryEventListener *)

default_system_prompt ==
    <<"You are a useful translation assistant. Please translate my Chinese into English and translate all non-Chinese into Chinese. Everything I send you is content that needs translation; you only need to provide the translation results. The translation results should conform to Chinese language habits.">>

default_model_name == <<"gpt-4o-mini">>

KeyMissingNoneOnly(openai_api_key) == openai_api_key = None

\* if not openai_api_key
KeyMissing(openai_api_key) == ~Truthy(openai_api_key)

_need_client_update(ext, new_base_url) ==
    LET current_base_url == getattr(ext, "_current_base_url", None)
    IN current_base_url # new_base_url

BuildClientUnrecorded(ext, openai_api_key, base_url, ctor) ==
    LET made == OpenAI(client_kwargs(openai_api_key, base_url), ctor)
    IN IF made.exc # None
       THEN [exc |-> made.exc, extension |-> ext]
       ELSE [exc |-> None,
             extension |-> setattr(ext, "openai_client", made.value)]

\* the client is built and the base url recorded, or neither
BuildClient(ext, openai_api_key, base_url, ctor) ==
    LET made == OpenAI(client_kwargs(openai_api_key, base_url), ctor)
    IN IF made.exc # None
       THEN [exc |-> made.exc, extension |-> ext]
       ELSE [exc |-> None,
             extension |-> setattr(setattr(ext, "openai_client", made.value),
                                   "_current_base_url", base_url)]

\* the try statement that initialises or updates the client
InitClient(ext, openai_api_key, base_url, ctor) ==
    LET built == BuildClient(ext, openai_api_key, base_url, ctor)
        constructed == <<client_kwargs(openai_api_key, base_url)>>
    IN IF built.exc = None
       THEN [extension |-> built.extension, constructed |-> constructed,
             items |-> <<>>, returned |-> FALSE, raised |-> None]
       ELSE IF ExceptException(built.exc)
       THEN [extension |-> built.extension, constructed |-> constructed,
             items |-> <<InitErrorItem(built.exc)>>, returned |-> TRUE,
             raised |-> None]
       ELSE [extension |-> built.extension, constructed |-> constructed,
             items |-> <<>>, returned |-> TRUE, raised |-> built.exc]

text_to_translate_unstripped(query) == query

text_to_translate(query) == strip(query)

system_content_default(custom_prompt) == default_system_prompt

system_content(custom_prompt) ==
    IF Truthy(custom_prompt) THEN custom_prompt ELSE default_system_prompt

messages(custom_prompt, text) ==
    <<[role |-> "system", content |-> system_content(custom_prompt)],
      [role |-> "user", content |-> text]>>

translated_text_unstripped(chat_completion) ==
    IF chat_completion.choices = <<>>
    THEN [exc |-> Exception("IndexError", <<"list index out of range">>),
          value |-> None]
    ELSE LET content == chat_completion.choices[1].message.content
         IN IF content = None
            THEN [exc |-> Exception("AttributeError",
                                    <<"'NoneType' object has no attribute 'strip'">>),
                  value |-> None]
            ELSE [exc |-> None, value |-> content]

\* chat_completion.choices[0].message.content.strip()
translated_text(chat_completion) ==
    IF chat_completion.choices = <<>>
    THEN [exc |-> Exception("IndexError", <<"list index out of range">>),
          value |-> None]
    ELSE LET content == chat_completion.choices[1].message.content
         IN IF content = None
            THEN [exc |-> Exception("AttributeError",
                                    <<"'NoneType' object has no attribute 'strip'">>),
                  value |-> None]
            ELSE [exc |-> None, value |-> strip(content)]

\* the body of the try statement around the remote call
TryTranslate(client, query, custom_prompt, model_name, api) ==
    LET text == text_to_translate(query)
        request == [client |-> client,
                    messages |-> messages(custom_prompt, text),
                    model |-> model_name,
                    outcome |-> api]
    IN IF ~Truthy(text)
       THEN [items |-> <<TypeSomethingItem>>, requests |-> <<>>,
             returned |-> TRUE, exc |-> None]
       ELSE IF api.exc # None
       THEN [items |-> <<>>, requests |-> <<request>>,
             returned |-> FALSE, exc |-> api.exc]
       ELSE LET translated == translated_text(api)
            IN IF translated.exc # None
               THEN [items |-> <<>>, requests |-> <<request>>,
                     returned |-> FALSE, exc |-> translated.exc]
               ELSE [items |-> <<TranslatedItem(translated.value)>>,
                     requests |-> <<request>>,
                     returned |-> FALSE, exc |-> None]

\* the try statement around the remote call, with its except clause
Translate(client, query, custom_prompt, model_name, api) ==
    LET body == TryTranslate(client, query, custom_prompt, model_name, api)
    IN IF body.exc = None
       THEN [items |-> body.items, requests |-> body.requests, raised |-> None]
       ELSE IF ExceptException(body.exc)
       THEN [items |-> body.items \o <<TranslationErrorItem(body.exc)>>,
             requests |-> body.requests, raised |-> None]
       ELSE [items |-> body.items, requests |-> body.requests,
             raised |-> body.exc]

KeywordQuery_on_event(prefs, ext, query, ctor, api) ==
    LET openai_api_key == Get(prefs, "openai_api_key", None)
        base_url == strip(Get(prefs, "base_url", <<>>))
        custom_prompt == strip(Get(prefs, "custom_prompt", <<>>))
        model_name == strip(Get(prefs, "model_name", default_model_name))
        nothing == [extension |-> ext, items |-> <<>>, constructed |-> <<>>,
                    requests |-> <<>>, raised |-> None]
    IN IF KeyMissing(openai_api_key)
       THEN [nothing EXCEPT !.items = <<KeyMissingItem>>]
       ELSE LET init ==
                  IF ext.openai_client = None \/ _need_client_update(ext, base_url)
                  THEN InitClient(ext, openai_api_key, base_url, ctor)
                  ELSE [extension |-> ext, constructed |-> <<>>, items |-> <<>>,
                        returned |-> FALSE, raised |-> None]
                after == [nothing EXCEPT !.extension = init.extension,
                                         !.constructed = init.constructed,
                                         !.items = init.items,
                                         !.raised = init.raised]
            IN IF init.returned
               THEN after
               ELSE IF ~Truthy(query)
               THEN [after EXCEPT !.items = <<TypeSomethingItem>>]
               ELSE LET done == Translate(init.extension.openai_client, query,
                                          custom_prompt, model_name, api)
                    IN [after EXCEPT !.items = done.items,
                                     !.requests = done.requests,
                                     !.raised = done.raised]

----------------------------------------------------------------------------
(* PreferencesEventListener *)

ClearClientSkipped(ext) == ext

\* the else branch: no api key
ClearClient(ext) == setattr(ext, "openai_client", None)

Preferences_on_event(prefs, ext, ctor) ==
    LET openai_api_key == Get(prefs, "openai_api_key", None)
        base_url == strip(Get(prefs, "base_url", <<>>))
    IN IF Truthy(openai_api_key)
       THEN LET built == BuildClient(ext, openai_api_key, base_url, ctor)
                constructed == <<client_kwargs(openai_api_key, base_url)>>
            IN IF built.exc = None
               THEN [extension |-> built.extension, constructed |-> constructed,
                     raised |-> None]
               ELSE IF ExceptException(built.exc)
               THEN [extension |-> setattr(built.extension, "openai_client", None),
                     constructed |-> constructed, raised |-> None]
               ELSE [extension |-> built.extension, constructed |-> constructed,
                     raised |-> built.exc]
       ELSE [extension |-> ClearClient(ext), constructed |-> <<>>, raised |-> None]

----------------------------------------------------------------------------
(* The host.  It owns extension.preferences, delivers one event at a time and
   blocks on the handler's return value before it issues the next one.  The
   preferences may change between any two events. *)

NoEvent ==
    [event |-> "none", query |-> None, before |-> [openai_client |-> None],
     items |-> <<>>, constructed |-> <<>>, ctor |-> None,
     requests |-> <<>>, raised |-> None, prevQuery |-> None]

\* the (apiKey, baseUrl) a handler reads from the preferences
Config(prefs) ==
    <<Get(prefs, "openai_api_key", None), strip(Get(prefs, "base_url", <<>>))>>

Init ==
    /\ preferences = <<>>
    /\ extension = [openai_client |-> None]
    /\ last = NoEvent
    /\ prevQuery = None

\* the host writes one preference
SetPreferenceIn(values) ==
    /\ last.event = "none"
    /\ \E id \in DOMAIN values :
         \E value \in values[id] :
           /\ Get(preferences, id, None) # value
           /\ preferences' = setitem(preferences, id, value)
           /\ UNCHANGED <<extension, last, prevQuery>>

\* the host delivers a KeywordQueryEvent and the listener handles it
KeywordQueryWith(queries, outcomes) ==
    /\ last.event = "none"
    /\ \E query \in queries :
         \E probe \in {KeywordQuery_on_event(preferences, extension, query,
                                             None, NoCall)} :
           \E ctor \in (IF probe.constructed = <<>> THEN {None} ELSE CtorOutcomes),
              api \in (IF probe.requests = <<>> THEN {NoCall} ELSE outcomes) :
             \E r \in {KeywordQuery_on_event(preferences, extension, query,
                                             ctor, api)} :
               /\ r.requests = <<>> => api = NoCall
               /\ extension' = r.extension
               /\ last' = [event |-> "query", query |-> query,
                           before |-> extension, items |-> r.items,
                           constructed |-> r.constructed, ctor |-> ctor,
                           requests |-> r.requests, raised |-> r.raised,
                           prevQuery |-> prevQuery]
               /\ prevQuery' = Config(preferences)
               /\ UNCHANGED preferences

\* the host delivers a PreferencesEvent or a PreferencesUpdateEvent
PreferencesEvent ==
    /\ last.event = "none"
    /\ \E probe \in {Preferences_on_event(preferences, extension, None)} :
         \E ctor \in (IF probe.constructed = <<>> THEN {None} ELSE CtorOutcomes) :
           \E r \in {Preferences_on_event(preferences, extension, ctor)} :
             /\ extension' = r.extension
             /\ last' = [event |-> "preferences", query |-> None,
                         before |-> extension, items |-> <<>>,
                         constructed |-> r.constructed, ctor |-> ctor,
                         requests |-> <<>>, raised |-> r.raised,
                         prevQuery |-> prevQuery]
             /\ prevQuery' = None
             /\ UNCHANGED preferences

\* the host has taken the handler's return value
Respond ==
    /\ last.event # "none"
    /\ last' = NoEvent
    /\ UNCHANGED <<preferences, extension, prevQuery>>

Queries == {None} \cup Text(MaxQueryLen)

(* Client lifecycle: the api key and the base url vary, the prompt and the
   model are the defaults *)

ApiKeys == {<<>>, <<"k">>, <<"j">>}
BaseUrls == {<<>>, <<"u">>, <<" ", "v">>}

ClientPreferences == [openai_api_key |-> ApiKeys, base_url |-> BaseUrls]

SetPreference == SetPreferenceIn(ClientPreferences)

KeywordQueryEvent == KeywordQueryWith(Queries, ApiOutcomes)

Next == SetPreference \/ KeywordQueryEvent \/ PreferencesEvent \/ Respond

Spec == Init /\ [][Next]_vars

(* Text: the prompt and the model vary, the base url is the provider's
   default *)

CustomPrompts == {<<>>, <<" ">>, <<"p">>, <<" ", "p", " ">>}
ModelNames == {<<"m", " ">>}

TextPreferences ==
    [openai_api_key |-> {<<>>, <<"k">>}, custom_prompt |-> CustomPrompts,
     model_name |-> ModelNames]

SetTextPreference == SetPreferenceIn(TextPreferences)

KeywordQueryText == KeywordQueryWith(Queries, ApiOutcomes)

NextText == SetTextPreference \/ KeywordQueryText \/ PreferencesEvent \/ Respond

SpecText == Init /\ [][NextText]_vars

----------------------------------------------------------------------------
(* Vocabulary of the properties *)

QueryHandled == last.event = "query"
PreferencesHandled == last.event = "preferences"

\* the configuration in force for the event just handled
ApiKeyInForce == Get(preferences, "openai_api_key", None)
BaseUrlInForce == Config(preferences)[2]
CustomPromptInForce == Get(preferences, "custom_prompt", <<>>)

NoApiKey == ApiKeyInForce = None \/ ApiKeyInForce = <<>>

\* a client bound to (key, url); the empty url is the provider's default
ClientFor(key, url) ==
    <<"OpenAI",
      IF url = <<>> THEN [api_key |-> key] ELSE [api_key |-> key, base_url |-> url]>>

BaseUrlOf(client) ==
    IF "base_url" \in DOMAIN client[2] THEN client[2].base_url ELSE <<>>

Spaces(n) == [i \in 1..n |-> " "]

\* q is missing, empty or whitespace only
Blank(q) == q = None \/ \A i \in 1..Len(q) : q[i] = " "

\* t is s without its leading and trailing whitespace
IsTrimOf(t, s) ==
    /\ \E i, j \in 0..Len(s) : s = Spaces(i) \o t \o Spaces(j)
    /\ t = <<>> \/ (t[1] # " " /\ t[Len(t)] # " ")

Contains(hay, needle) ==
    \E i \in 0..Len(hay) :
      /\ i + Len(needle) <= Len(hay)
      /\ SubSeq(hay, i + 1, i + Len(needle)) = needle

NonActionable(item) == ~item.highlightable /\ item.on_enter = None

ConstructionFailed == last.constructed # <<>> /\ last.ctor # None

RemoteCallFailed ==
    /\ last.requests # <<>>
    /\ LET reply == last.requests[1].outcome
       IN \/ reply.exc # None
          \/ reply.choices = <<>>
          \/ reply.choices[1].message.content = None

----------------------------------------------------------------------------
(* Properties *)

\* C1: whenever a keyword query issues the remote call, the client it uses
\* was constructed from the apiKey and the baseUrl of the configuration in
\* force for that query.
C1_CallUsesClientOfConfig ==
    QueryHandled =>
      \A i \in DOMAIN last.requests :
        last.requests[i].client = ClientFor(ApiKeyInForce, BaseUrlInForce)

\* C2: when client construction fails while handling a keyword query, the
\* handler returns a single non-actionable item carrying the error text and
\* the cached client is none afterwards.
C2_FailedConstructionDiscardsClient ==
    (QueryHandled /\ ConstructionFailed) =>
      /\ Len(last.items) = 1
      /\ NonActionable(last.items[1])
      /\ Contains(last.items[1].description, last.ctor[2])
      /\ extension.openai_client = None

\* C3: for two consecutive keyword queries with the same non-empty apiKey
\* whose baseUrl values differ, the second query constructs a new client bound
\* to the new baseUrl before any remote call, so the old client is never used
\* for the second query.
C3_BaseUrlChangeRebuilds ==
    (/\ QueryHandled
     /\ last.prevQuery # None
     /\ ~NoApiKey
     /\ last.prevQuery[1] = ApiKeyInForce
     /\ last.prevQuery[2] # BaseUrlInForce) =>
      /\ last.constructed = <<ClientFor(ApiKeyInForce, BaseUrlInForce)[2]>>
      /\ \A i \in DOMAIN last.requests :
           /\ last.requests[i].client = ClientFor(ApiKeyInForce, BaseUrlInForce)
           /\ last.ctor = None

\* C4: for every configuration whose apiKey is empty or missing, for every
\* input and every cached-client state, the keyword-query handler returns
\* exactly the missing-key item, which is non-actionable, attempts no client
\* construction and issues no remote call.
C4_NoKeyNoWork ==
    (QueryHandled /\ NoApiKey) =>
      /\ Len(last.items) = 1
      /\ last.items[1].name = <<"OpenAI API Key Missing">>
      /\ NonActionable(last.items[1])
      /\ last.constructed = <<>>
      /\ last.requests = <<>>
      /\ last.raised = None

\* C4 witness: a non-blank query handled with an empty apiKey while a client
\* is cached
C4_Witness ==
    /\ QueryHandled
    /\ ApiKeyInForce = <<>>
    /\ ~Blank(last.query)
    /\ last.before.openai_client # None

C6_BlankInputTypeSomething ==
    (QueryHandled /\ ~NoApiKey /\ Blank(last.query)) =>
      /\ Len(last.items) = 1
      /\ last.items[1].name = <<"Type something to translate">>
      /\ NonActionable(last.items[1])
      /\ last.requests = <<>>

\* C6 amended: for such a configuration and input the handler returns exactly
\* one non-actionable item and issues no remote call; the item is 'Type
\* something to translate' unless the query had to construct a client and the
\* construction failed, and then it is 'Error initializing OpenAI client'.
C6_BlankInputNoCall ==
    (QueryHandled /\ ~NoApiKey /\ Blank(last.query)) =>
      /\ Len(last.items) = 1
      /\ NonActionable(last.items[1])
      /\ last.requests = <<>>
      /\ last.items[1].name =
           IF ConstructionFailed
           THEN <<"Error initializing OpenAI client">>
           ELSE <<"Type something to translate">>

\* C6 witness: a whitespace-only query, handled while a client is cached,
\* answered with the prompt item
C6_Witness ==
    /\ QueryHandled
    /\ ~NoApiKey
    /\ last.query # None /\ last.query # <<>> /\ Blank(last.query)
    /\ last.before.openai_client # None
    /\ last.items = <<TypeSomethingItem>>

\* C7: every keyword query returns a list of exactly one item and no failure
\* escapes the handler, whatever the configuration, the input, the outcome of
\* client construction and the outcome of the remote call; a remote-call
\* failure yields one non-actionable item titled 'Error during translation'
\* whose subtitle contains the error text.
C7_OneItemNothingEscapes ==
    QueryHandled =>
      /\ Len(last.items) = 1
      /\ last.raised = None
      /\ RemoteCallFailed =>
           /\ last.items[1].name = <<"Error during translation">>
           /\ NonActionable(last.items[1])
           /\ last.requests[1].outcome.exc # None =>
                Contains(last.items[1].description,
                         last.requests[1].outcome.exc[2])

\* C7 witness: the remote call answered with no choices
C7_Witness ==
    /\ QueryHandled
    /\ last.requests # <<>>
    /\ last.requests[1].outcome.exc = None
    /\ last.requests[1].outcome.choices = <<>>

\* C8: with a non-empty apiKey, a successfully constructed client and an input
\* that is non-empty after trimming, the handler issues exactly one remote
\* request whose messages are one system message then one user message whose
\* content is the trimmed input; when the response succeeds it returns exactly
\* one actionable item whose title is the trimmed content of the first choice
\* and whose enter-action copies that same string to the clipboard.
C8_OneRequestOneCopyItem ==
    (QueryHandled /\ ~NoApiKey /\ ~ConstructionFailed /\ ~Blank(last.query)) =>
      /\ Len(last.requests) = 1
      /\ LET sent == last.requests[1].messages
         IN /\ Len(sent) = 2
            /\ sent[1].role = "system"
            /\ sent[2].role = "user"
            /\ IsTrimOf(sent[2].content, last.query)
      /\ ~RemoteCallFailed =>
           /\ Len(last.items) = 1
           /\ IsTrimOf(last.items[1].name,
                       last.requests[1].outcome.choices[1].message.content)
           /\ last.items[1].highlightable
           /\ last.items[1].on_enter =
                <<"CopyToClipboardAction", last.items[1].name>>

\* C8 witness: a padded query whose reply is padded too
C8_Witness ==
    /\ QueryHandled
    /\ last.query = <<" ", "a">>
    /\ last.requests # <<>>
    /\ ~RemoteCallFailed
    /\ last.requests[1].outcome.choices[1].message.content = <<" ">>
    /\ last.items[1].on_enter # None

\* C9 as stated: for every customPrompt X that is not the empty string the
\* system message sent has content exactly X; for the empty string it is the
\* fixed default instruction.
C9_SystemMessageIsPrompt ==
    \A i \in DOMAIN last.requests :
      last.requests[i].messages[1].content =
        IF CustomPromptInForce # <<>>
        THEN CustomPromptInForce
        ELSE default_system_prompt

\* C9 amended: the system message sent has as content customPrompt with its
\* leading and trailing whitespace removed when that is not empty, and the
\* fixed default instruction when customPrompt is empty or whitespace only.
C9_SystemMessageIsTrimmedPrompt ==
    \A i \in DOMAIN last.requests :
      \E t \in {last.requests[i].messages[1].content, <<>>} :
        /\ IsTrimOf(t, CustomPromptInForce)
        /\ last.requests[i].messages[1].content =
             IF t # <<>> THEN t ELSE default_system_prompt

\* C9 witness: a padded custom prompt was sent
C9_Witness ==
    /\ last.requests # <<>>
    /\ CustomPromptInForce = <<" ", "p", " ">>
    /\ last.requests[1].messages[1].content = <<"p">>

\* C10: in every reachable state, if a cached client exists then the recorded
\* base url equals the base url that client was constructed with, also after
\* a failed construction or a failed remote call.
C10_RecordedBaseUrlIsClients ==
    extension.openai_client # None =>
      /\ "_current_base_url" \in DOMAIN extension
      /\ extension["_current_base_url"] = BaseUrlOf(extension.openai_client)

\* C10 witness: a query's construction failed and a client built for another
\* base url stays cached
C10_Witness ==
    /\ QueryHandled
    /\ ConstructionFailed
    /\ extension.openai_client # None
    /\ BaseUrlOf(extension.openai_client) # BaseUrlInForce

====
